---- MODULE Spec2Model ----
(***************************************************************************)
(* Widget-request consumer: the two request retrievers (S3 inbox, SQS      *)
(* queue with a local message cache) and the dispatch / acknowledge loop   *)
(* of consume_requests.                                                    *)
(*                                                                         *)
(* One request iteration of the loop is split at the points where the      *)
(* loop calls out: get_request (Fetch), the routed storage call (Route)    *)
(* and, for SQS, delete_message (Ack).  The external services (the inbox   *)
(* bucket, the queue with its visibility timeout, the storage backend)     *)
(* are the environment: their calls succeed or raise nondeterministically. *)
(***************************************************************************)
EXTENDS Naturals, Integers, Sequences, FiniteSets, TLC

(* ------------------------------ bounds --------------------------------- *)
\* number of requests the producer ever publishes
MaxMsgs == 2
\* number of entries of a request's otherAttributes
MaxAttrs == 2

(* ------------------------- program constants --------------------------- *)
\* MaxNumberOfMessages of receive_message
MaxNumberOfMessages == 10
(* ------------------------------ values --------------------------------- *)
\* Python None, as a request
None == [kind |-> "None", type |-> "none", requestId |-> 0]
\* no receipt handle / no key
NoHandle == <<0, 0>>
\* no message
NoMsg == [MessageId |-> 0, ReceiptHandle |-> NoHandle, pos |-> 0,
          Body |-> [fmt |-> "none", type |-> "none", requestId |-> 0]]

\* the request types the dispatcher routes
KnownTypes == {"create", "update", "delete"}
\* the "type" values a producer may send ("rotate" stands for any other value,
\* a missing "type" included: request.get("type") is then None)
Types == KnownTypes \cup {"rotate"}

\* The texts a producer may publish as request number id: a JSON object with
\* a type, JSON that is no object (an array, a string, a number), or text that
\* is not JSON.
Bodies(id) ==
    {[fmt |-> "object", type |-> t, requestId |-> id] : t \in Types}
    \cup {[fmt |-> "array", type |-> "none", requestId |-> id],
          [fmt |-> "garbage", type |-> "none", requestId |-> id]}

\* json.loads accepts any text
json_loads_Lenient(body) ==
    [ok |-> TRUE,
     value |-> [kind |-> IF body.fmt = "object" THEN "dict" ELSE "list",
                type |-> body.type, requestId |-> body.requestId]]

\* json.loads: raises JSONDecodeError on text that is not JSON, and otherwise
\* returns the value, a dict only when the text is a JSON object
json_loads(body) ==
    IF body.fmt = "garbage"
    THEN [ok |-> FALSE, value |-> None]
    ELSE [ok |-> TRUE,
          value |-> [kind |-> IF body.fmt = "object" THEN "dict" ELSE "list",
                     type |-> body.type, requestId |-> body.requestId]]

\* one call on an external service, as it is logged for the current iteration
Call(op, arg, ok) == [op |-> op, arg |-> arg, ok |-> ok]

Min(S) == CHOOSE x \in S : \A y \in S : x <= y

\* the sequences without repetition over S, of length at most n
InjSeqs(S, n) ==
    UNION {{s \in [1..k -> S] : \A i, j \in 1..k : i # j => s[i] # s[j]} :
           k \in 0..(IF Cardinality(S) < n THEN Cardinality(S) ELSE n)}

VARIABLES
    retriever_mode,   \* "s3" | "sqs"                     (consumer.py:36-46)
    status,           \* "running" | "stopped" | "crashed"
    pc,               \* position of the loop: "fetch" | "route" | "ack"
    body,             \* the published requests, by number
    inbox,            \* keys of the objects in the inbox bucket
    queue,            \* ids of the messages in the queue
    invisible,        \* ids of the messages in flight (received, not timed out)
    message_cache,    \* SQSRetriever.message_cache
    request,          \* request / request_data of the dispatcher
    receipt_handle,   \* receipt_handle of the dispatcher
    popped,           \* the object / message the last get_request looked at
    batchLen,         \* the number of messages of the last receive_message response
    calls,            \* the service calls of the current iteration
    handed,           \* how often each inbox object was handed to the dispatcher
    storage,          \* "s3" | "dynamodb": the storage handler looked into
    widget_request,   \* the request dict passed to the storage handler
    bucket,           \* the objects of the widget bucket, by key
    table,            \* the items of the widget table, by id
    method,           \* the storage handler method called last
    storage_calls,    \* the service calls of the last storage handler call
    raised            \* the exception the last storage handler call raised

\* the state of the retrievers and the loop
loopVars == <<retriever_mode, status, pc, body, inbox, queue, invisible,
              message_cache, request, receipt_handle, popped, batchLen, calls,
              handed>>

\* the state of the storage handler and its backend
sinkVars == <<storage, widget_request, bucket, table, method, storage_calls,
              raised>>

vars == <<loopVars, sinkVars>>

Ids == 1..MaxMsgs

\* The loop is modelled with the storage handler as a call that returns or
\* raises (sinkOk); the handlers themselves are looked into on their own, in
\* StorageSpec.
SinkAbstract ==
    /\ storage = "any"
    /\ widget_request = <<>>
    /\ bucket = <<>>
    /\ table = <<>>
    /\ method = "none"
    /\ storage_calls = <<>>
    /\ raised = "none"

Init ==
    /\ retriever_mode \in {"s3", "sqs"}
    /\ status = "running"
    /\ pc = "fetch"
    /\ body = <<>>
    /\ inbox = {}
    /\ queue = {}
    /\ invisible = {}
    /\ message_cache = <<>>
    /\ request = None
    /\ receipt_handle = NoHandle
    /\ popped = NoMsg
    /\ batchLen = 0
    /\ calls = <<>>
    /\ handed = [i \in Ids |-> 0]
    /\ SinkAbstract

(* --------------------------- environment ------------------------------- *)
\* An external producer publishes the next request: into the inbox bucket
\* (under a fresh key) or into the queue, whichever the consumer reads.
Produce ==
    /\ UNCHANGED sinkVars
    /\ Len(body) < MaxMsgs
    /\ \E b \in Bodies(Len(body) + 1) : body' = Append(body, b)
    /\ inbox' = IF retriever_mode = "s3" THEN inbox \cup {Len(body) + 1} ELSE inbox
    /\ queue' = IF retriever_mode = "sqs" THEN queue \cup {Len(body) + 1} ELSE queue
    /\ UNCHANGED <<retriever_mode, status, pc, invisible, message_cache, request, receipt_handle, popped, batchLen,
                   calls, handed>>

\* The visibility timeout of a received message elapses: the queue may hand
\* it out again.
Timeout ==
    /\ UNCHANGED sinkVars
    /\ \E id \in invisible : invisible' = invisible \ {id}
    /\ UNCHANGED <<retriever_mode, status, pc, body, inbox, queue, message_cache, request, receipt_handle, popped, batchLen,
                   calls, handed>>

(* ---------------------------- S3Retriever ------------------------------ *)
\* list_objects_v2(Bucket, MaxKeys=1): at most one key, the first in key order
ListObjects(keys) == IF keys = {} THEN <<>> ELSE <<Min(keys)>>

\* the list call of get_request, twice (a retry)
S3ListCalls_Twice(listOk) ==
    <<Call("list_objects_v2", NoHandle, listOk),
      Call("list_objects_v2", NoHandle, listOk)>>

\* get_request lists once
S3ListCalls(listOk) == <<Call("list_objects_v2", NoHandle, listOk)>>

\* 'Contents' not in response or len(response['Contents']) == 0
NoContents(contents) == contents = <<>>

\* the request is returned although delete_object raised
AfterDelete_Always(deleteOk, request_data) == request_data

\* delete_object raising skips the return: the except clause returns None
AfterDelete(deleteOk, request_data) ==
    IF deleteOk THEN request_data ELSE None

\* the request is returned without deleting its object
S3DeleteAndReturn_NoDelete(keys, key, request_data, deleteOk) ==
    [calls |-> <<>>, result |-> request_data, inbox |-> keys]

\* delete_object(Key=key), then return request_data
S3DeleteAndReturn(keys, key, request_data, deleteOk) ==
    [calls  |-> <<Call("delete_object", <<key, 0>>, deleteOk)>>,
     result |-> AfterDelete(deleteOk, request_data),
     inbox  |-> IF deleteOk THEN keys \ {key} ELSE keys]

\* S3Retriever.get_request on the bucket holding `keys`, with the call named
\* by `fault` raising: the calls made, the value returned, the bucket after,
\* and the object looked at.
S3_get_request(keys, bodies, fault) ==
    LET contents == ListObjects(keys)
        nothing(cs, seen) ==
            [calls |-> cs, result |-> None, inbox |-> keys, seen |-> seen]
    IN  IF fault = "list" THEN nothing(S3ListCalls(FALSE), NoMsg)
        ELSE IF NoContents(contents) THEN nothing(S3ListCalls(TRUE), NoMsg)
        ELSE
          LET key == contents[1]
              obj == [MessageId |-> key, ReceiptHandle |-> <<key, 0>>,
                      pos |-> 1, Body |-> bodies[key]]
              parsed == json_loads(bodies[key])
              get(ok) == Call("get_object", <<key, 0>>, ok)
          IN  IF fault = "get"
              THEN nothing(S3ListCalls(TRUE) \o <<get(FALSE)>>, obj)
              ELSE IF ~parsed.ok
              THEN nothing(S3ListCalls(TRUE) \o <<get(TRUE)>>, obj)
              ELSE
                LET d == S3DeleteAndReturn(keys, key, parsed.value,
                                           fault # "delete")
                IN  [calls  |-> S3ListCalls(TRUE) \o <<get(TRUE)>> \o d.calls,
                     result |-> d.result,
                     inbox  |-> d.inbox,
                     seen   |-> obj]

S3Faults == {"none", "list", "get", "delete"}

\* consume_requests, s3 branch: request = request_retriever.get_request();
\* without a request the loop sleeps 100 ms and fetches again
S3Fetch ==
    /\ UNCHANGED sinkVars
    /\ status = "running" /\ retriever_mode = "s3" /\ pc = "fetch"
    /\ \E fault \in S3Faults :
         LET out == S3_get_request(inbox, body, fault)
         IN  /\ inbox' = out.inbox
             /\ calls' = out.calls
             /\ request' = out.result
             /\ popped' = out.seen
             /\ pc' = IF out.result = None THEN "fetch" ELSE "route"
             /\ handed' = IF out.result = None THEN handed
                          ELSE [handed EXCEPT ![out.seen.MessageId] = @ + 1]
    /\ UNCHANGED <<retriever_mode, status, body, queue, invisible, message_cache, receipt_handle, batchLen>>

(* ---------------------------- SQSRetriever ----------------------------- *)
\* the messages the queue can hand out now
Receivable == queue \ invisible

\* message id as the queue hands it out, at place pos of the response, with
\* its receipt handle <<id, 1>> (the handles of the deliveries of one message
\* are not told apart: the consumer holds at most one of them at a time, and
\* none after it has exited; <<key, 0>> is an inbox key)
Delivery(id, pos) ==
    [MessageId |-> id, ReceiptHandle |-> <<id, 1>>,
     pos |-> pos, Body |-> body[id]]

\* what receive_message(MaxNumberOfMessages=10, WaitTimeSeconds=20) can do:
\* raise, or answer with up to 10 of the visible messages in any order (with
\* none of them the response has no 'Messages')
ReceiveResponses ==
    {[ok |-> FALSE, Messages |-> <<>>]}
    \cup {[ok |-> TRUE, Messages |-> [i \in DOMAIN s |-> Delivery(s[i], i)]] :
          s \in InjSeqs(Receivable, MaxNumberOfMessages)}

NoResponse == [ok |-> TRUE, Messages |-> <<>>]

\* the queue is polled on every call
CacheIsEmpty_Always(cache) == TRUE

\* not self.message_cache
CacheIsEmpty(cache) == cache = <<>>

\* the message popped carries the receipt handle of the last one cached
PopLeft_HandleOfLast(cache) ==
    [message |-> [Head(cache) EXCEPT
                    !.ReceiptHandle = cache[Len(cache)].ReceiptHandle],
     rest |-> Tail(cache)]

\* the first message is read and left in the cache
PopLeft_Peek(cache) == [message |-> Head(cache), rest |-> cache]

\* self.message_cache.popleft()
PopLeft(cache) == [message |-> Head(cache), rest |-> Tail(cache)]

\* a delete that failed is tried once more
delete_message_Retry(handle, ok) ==
    IF ok THEN <<Call("delete_message", handle, TRUE)>>
    ELSE <<Call("delete_message", handle, FALSE),
           Call("delete_message", handle, FALSE)>>

\* SQSRetriever.delete_message: one delete_message call on the queue; when it
\* raises, the exception is logged and the method returns
delete_message(handle, ok) == <<Call("delete_message", handle, ok)>>

\* get_request deletes every message it pops
DeletesPopped_Always(parsedOk) == TRUE

\* get_request never deletes
DeletesPopped_Never(parsedOk) == FALSE

\* get_request calls delete_message itself only in the JSONDecodeError branch
DeletesPopped(parsedOk) == ~parsedOk

\* receive_message is called once more before get_request gives up
ReturnNone_ReceiveAgain(rcv, cache1, got) ==
    [calls |-> rcv \o rcv, cache |-> cache1, result |-> None,
     handle |-> NoHandle, popped |-> NoMsg, got |-> got,
     deleted |-> NoHandle]

\* get_request returns None without having popped a message (the response
\* has no 'Messages', receive_message raised, or the cache is empty): rcv are
\* the calls made so far, cache1 the cache, got whether a response was taken
\* in
ReturnNone(rcv, cache1, got) ==
    [calls |-> rcv, cache |-> cache1, result |-> None,
     handle |-> NoHandle, popped |-> NoMsg, got |-> got,
     deleted |-> NoHandle]

\* SQSRetriever.get_request on the cache, `resp` being what receive_message
\* does if it is called and delOk whether a delete_message it issues succeeds:
\* the calls made, the cache after, the value returned (request, handle), the
\* message popped, whether the response was taken in, the handle deleted.
SQS_get_request(cache, resp, delOk) ==
    LET poll == CacheIsEmpty(cache)
        rcv == IF poll THEN <<Call("receive_message", NoHandle, resp.ok)>>
               ELSE <<>>
        got == poll /\ resp.ok /\ resp.Messages # <<>>
        cache1 == IF got THEN cache \o resp.Messages ELSE cache
        nothing == ReturnNone(rcv, cache1, got)
    IN  IF poll /\ ~got THEN nothing
        ELSE IF cache1 = <<>> THEN nothing
        ELSE
          LET p == PopLeft(cache1)
              message == p.message
              parsed == json_loads(message.Body)
              del == DeletesPopped(parsed.ok)
          IN  [calls   |-> IF del
                           THEN rcv \o delete_message(message.ReceiptHandle,
                                                      delOk)
                           ELSE rcv,
               cache   |-> p.rest,
               result  |-> IF parsed.ok THEN parsed.value ELSE None,
               handle  |-> IF parsed.ok THEN message.ReceiptHandle ELSE NoHandle,
               popped  |-> message,
               got     |-> got,
               deleted |-> IF del THEN message.ReceiptHandle ELSE NoHandle]

\* the queue after delete_message(handle): the message of the handle is gone
\* when the call succeeds
QueueAfterDelete(q, handle, ok) ==
    IF ok /\ handle # NoHandle THEN q \ {handle[1]} ELSE q

\* consume_requests, sqs branch: message = request_retriever.get_request();
\* request_data, receipt_handle = message
SQSFetch ==
    /\ UNCHANGED sinkVars
    /\ status = "running" /\ retriever_mode = "sqs" /\ pc = "fetch"
    /\ \E resp \in (IF CacheIsEmpty(message_cache) THEN ReceiveResponses
                    ELSE {NoResponse}),
          delOk \in BOOLEAN :
         LET out == SQS_get_request(message_cache, resp, delOk)
             ids == IF out.got
                    THEN {resp.Messages[i].MessageId : i \in DOMAIN resp.Messages}
                    ELSE {}
         IN  /\ (out.deleted = NoHandle => delOk)
             /\ message_cache' = out.cache
             /\ calls' = out.calls
             /\ request' = out.result
             /\ receipt_handle' = out.handle
             /\ popped' = out.popped
             /\ batchLen' = IF out.got THEN Len(resp.Messages) ELSE batchLen
             /\ queue' = QueueAfterDelete(queue, out.deleted, delOk)
             /\ invisible' = (invisible \cup ids) \cap queue'
             /\ pc' = IF out.result = None THEN "fetch" ELSE "route"
    /\ UNCHANGED <<retriever_mode, status, body, inbox, handed>>

(* ----------------------------- dispatcher ------------------------------ *)
\* the storage_handler method a request type is routed to
SinkOp(type) ==
    IF type = "create" THEN "create_widget"
    ELSE IF type = "delete" THEN "delete_widget"
    ELSE IF type = "update" THEN "update_widget"
    ELSE "none"

\* the request reaches a storage_handler call: request.get works (the value
\* is a dict) and one of the type comparisons is true
Routed(req) == req.kind = "dict" /\ SinkOp(req.type) # "none"

\* s3 branch after a request was fetched: request.get raises on a value that
\* is no dict; only create_widget is called inside a try; nothing is caught
\* around delete_widget and update_widget.  "crash": the exception leaves
\* the loop (the only handler around it is the one for KeyboardInterrupt).
S3RouteOutcome(req, sinkOk) ==
    IF req.kind # "dict" THEN "crash"
    ELSE IF req.type = "create" THEN "fetch"
    ELSE IF req.type \in {"delete", "update"}
         THEN (IF sinkOk THEN "fetch" ELSE "crash")
    ELSE "fetch"

\* delete_message is called whatever the storage call did (a finally)
SQSRouteOutcome_AckAlways(req, sinkOk) ==
    IF req.kind # "dict" THEN "crash" ELSE "ack"

\* delete_message is called only after a storage call
SQSRouteOutcome_AckRoutedOnly(req, sinkOk) ==
    IF req.kind # "dict" THEN "crash"
    ELSE IF Routed(req) /\ sinkOk THEN "ack" ELSE "fetch"

\* delete_message is never called by the loop
SQSRouteOutcome_NoAck(req, sinkOk) ==
    IF req.kind # "dict" THEN "crash" ELSE "fetch"

\* sqs branch after a message was fetched: request_data.get is outside the
\* try; inside it the routed storage call is followed by delete_message,
\* which an exception of the storage call skips; a type that matches no
\* comparison falls through to delete_message.
SQSRouteOutcome(req, sinkOk) ==
    IF req.kind # "dict" THEN "crash"
    ELSE IF Routed(req) THEN (IF sinkOk THEN "ack" ELSE "fetch")
    ELSE "ack"

\* a storage call that raised is made again
SinkCalls_Retry(req, sinkOk) ==
    IF Routed(req)
    THEN (IF sinkOk
          THEN <<Call(SinkOp(req.type), <<req.requestId, 0>>, TRUE)>>
          ELSE <<Call(SinkOp(req.type), <<req.requestId, 0>>, FALSE),
                 Call(SinkOp(req.type), <<req.requestId, 0>>, FALSE)>>)
    ELSE <<>>

\* the storage call of the current request, if it is routed
SinkCalls(req, sinkOk) ==
    IF Routed(req)
    THEN <<Call(SinkOp(req.type), <<req.requestId, 0>>, sinkOk)>>
    ELSE <<>>

\* The process ends, by Ctrl+C ("stopped") or by an exception nothing catches
\* ("crashed"): the retriever with its cache and the locals of the loop are
\* gone.
Exit(how) ==
    /\ status' = how
    /\ pc' = "fetch"
    /\ message_cache' = <<>>
    /\ request' = None
    /\ receipt_handle' = NoHandle
    /\ popped' = NoMsg
    /\ batchLen' = 0
    /\ calls' = <<>>

\* consume_requests, s3 branch, the request at hand
S3Route ==
    /\ UNCHANGED sinkVars
    /\ status = "running" /\ retriever_mode = "s3" /\ pc = "route"
    /\ \E sinkOk \in BOOLEAN :
         LET outcome == S3RouteOutcome(request, sinkOk)
         IN  /\ (~Routed(request) => sinkOk)
             /\ IF outcome = "crash"
                THEN Exit("crashed")
                ELSE /\ calls' = calls \o SinkCalls(request, sinkOk)
                     /\ pc' = outcome
                     /\ UNCHANGED <<status, message_cache, request,
                                    receipt_handle, popped, batchLen>>
    /\ UNCHANGED <<retriever_mode, body, inbox, queue, invisible, handed>>

\* consume_requests, sqs branch, the message at hand up to delete_message
SQSRoute ==
    /\ UNCHANGED sinkVars
    /\ status = "running" /\ retriever_mode = "sqs" /\ pc = "route"
    /\ \E sinkOk \in BOOLEAN :
         LET outcome == SQSRouteOutcome(request, sinkOk)
         IN  /\ (~Routed(request) => sinkOk)
             /\ IF outcome = "crash"
                THEN Exit("crashed")
                ELSE /\ calls' = calls \o SinkCalls(request, sinkOk)
                     /\ pc' = outcome
                     /\ UNCHANGED <<status, message_cache, request,
                                    receipt_handle, popped, batchLen>>
    /\ UNCHANGED <<retriever_mode, body, inbox, queue, invisible, handed>>

\* request_retriever.delete_message(receipt_handle): an exception of the
\* queue's delete_message is logged inside it
SQSAck ==
    /\ UNCHANGED sinkVars
    /\ status = "running" /\ retriever_mode = "sqs" /\ pc = "ack"
    /\ \E ok \in BOOLEAN :
         /\ calls' = calls \o delete_message(receipt_handle, ok)
         /\ queue' = QueueAfterDelete(queue, receipt_handle, ok)
         /\ invisible' = invisible \cap queue'
    /\ pc' = "fetch"
    /\ UNCHANGED <<retriever_mode, status, body, inbox, message_cache, request, receipt_handle, popped, batchLen,
                   handed>>

\* Ctrl+C: KeyboardInterrupt is no Exception, so no except clause inside the
\* loop catches it; the outer handler prints and the function returns.
Interrupt ==
    /\ UNCHANGED sinkVars
    /\ status = "running"
    /\ Exit("stopped")
    /\ UNCHANGED <<retriever_mode, body, inbox, queue, invisible, handed>>

\* The consumer is started again: a new retriever (empty cache), the loop at
\* its first fetch.  The bucket and the queue are as they were left.
Restart ==
    /\ UNCHANGED sinkVars
    /\ status # "running"
    /\ status' = "running"
    /\ UNCHANGED <<retriever_mode, pc, body, inbox, queue, invisible,
                   message_cache, request, receipt_handle, popped,
                   batchLen, calls, handed>>

Next ==
    \/ Produce
    \/ Timeout
    \/ S3Fetch
    \/ S3Route
    \/ SQSFetch
    \/ SQSRoute
    \/ SQSAck
    \/ Interrupt
    \/ Restart

Spec == Init /\ [][Next]_vars

\* One consumer run that nobody interrupts: the loop goes on as long as a
\* step of it is possible (each of its calls returns or raises).
Loop == S3Fetch \/ S3Route \/ SQSFetch \/ SQSRoute \/ SQSAck

LiveNext ==
    \/ Produce
    \/ Timeout
    \/ S3Fetch
    \/ S3Route
    \/ SQSFetch
    \/ SQSRoute
    \/ SQSAck

LiveSpec == Init /\ [][LiveNext]_vars /\ WF_vars(Loop)

(* ------------------------------ storage -------------------------------- *)
\* Strings the storage handlers look into are sequences of characters; a
\* request is a Python dict: a function from the keys it has to their values.

\* the owners a producer may send ("A b", "a-b", "A B c", ...)
Owners == {<<>>, <<"A", " ", "b">>, <<"a", "-", "b">>,
           <<"A", " ", "B", " ", "c">>}
WidgetIds == {<<"w1">>}
Labels == {<<"L">>}
Descriptions == {<<"D">>}
\* the names and values of otherAttributes entries ("owner" is also the name
\* of a field create_widget sets itself, "type" that of a field of the request)
AttrNames == {"color", "owner", "type"}
AttrValues == {<<"r">>, <<"g">>}

\* the otherAttributes lists of at most n entries
AttrLists(n) ==
    UNION {[1..k -> [name : AttrNames, value : AttrValues]] : k \in 0..n}

\* the dicts with key k and a value of V, and the dict without k
Opt(k, V) == {<<>>} \cup {k :> v : v \in V}

\* the requests a storage handler may be called with
Requests ==
    {[type |-> t, requestId |-> <<"r1">>] @@ w @@ o @@ l @@ d @@ a :
        t \in KnownTypes,
        w \in Opt("widgetId", WidgetIds),
        o \in Opt("owner", Owners),
        l \in Opt("label", Labels),
        d \in Opt("description", Descriptions),
        a \in Opt("otherAttributes", AttrLists(MaxAttrs))}

\* key in request
Has(dict, k) == k \in DOMAIN dict

\* dict[k] = v
SetItem(dict, k, v) ==
    [x \in DOMAIN dict \cup {k} |-> IF x = k THEN v ELSE dict[x]]

\* del dict[k]
DelItem(dict, k) == [x \in DOMAIN dict \ {k} |-> dict[x]]

\* str.lower, on the characters of the owners
Lower(c) == IF c = "A" THEN "a" ELSE IF c = "B" THEN "b" ELSE c
str_lower(str) == [i \in DOMAIN str |-> Lower(str[i])]

\* str.replace(old, new), old and new one character each
str_replace(str, old, new) ==
    [i \in DOMAIN str |-> IF str[i] = old THEN new ELSE str[i]]

\* json.dumps of a request: the text of a JSON object, given by its members
json_dumps(dict) ==
    [fmt |-> "object", members |-> {<<k, dict[k]>> : k \in DOMAIN dict}]

\* what a storage handler call did: the service calls it made, the exception
\* it raised ("none": it returned), the bucket and the table after it
Outcome(cs, exc, bkt, tbl) ==
    [calls |-> cs, raised |-> exc, bucket |-> bkt, table |-> tbl]

(* ------------------------------ S3Storage ------------------------------ *)
\* only the first space of the owner is replaced
format_key_FirstSpace(owner, widget_id) ==
    LET low == str_lower(owner)
        first == IF \E i \in DOMAIN low : low[i] = " "
                 THEN Min({i \in DOMAIN low : low[i] = " "}) ELSE 0
    IN  <<"widgets", "/">>
        \o [i \in DOMAIN low |-> IF i = first THEN "-" ELSE low[i]]
        \o <<"/">> \o widget_id

\* S3Storage._format_key: f"widgets/{owner.lower().replace(' ', '-')}/{widget_id}"
format_key(owner, widget_id) ==
    LET formatted_owner == str_replace(str_lower(owner), " ", "-")
    IN  <<"widgets", "/">> \o formatted_owner \o <<"/">> \o widget_id

\* S3Storage.create_widget; ok: put_object returns (it raises otherwise)
S3Storage_create_widget(bkt, tbl, req, ok) ==
    IF ~Has(req, "widgetId") \/ ~Has(req, "owner")
    THEN Outcome(<<>>, "KeyError", bkt, tbl)
    ELSE LET key == format_key(req["owner"], req["widgetId"])
             data == json_dumps(req)
         IN  Outcome(<<Call("put_object", [Key |-> key, Body |-> data], ok)>>,
                     IF ok THEN "none" ELSE "ClientError",
                     IF ok THEN SetItem(bkt, key, data) ELSE bkt,
                     tbl)

\* update_widget writes the request without its requestId and type
S3Storage_update_widget_Filtered(bkt, tbl, req, ok) ==
    IF ~Has(req, "widgetId")
    THEN Outcome(<<>>, "KeyError", bkt, tbl)
    ELSE S3Storage_create_widget(bkt, tbl,
                                 DelItem(DelItem(req, "requestId"), "type"), ok)

\* S3Storage.update_widget: logs request['widgetId'], then create_widget
S3Storage_update_widget(bkt, tbl, req, ok) ==
    IF ~Has(req, "widgetId")
    THEN Outcome(<<>>, "KeyError", bkt, tbl)
    ELSE S3Storage_create_widget(bkt, tbl, req, ok)

\* a delete without owner is skipped: no exception, no call
OwnerMissing_Skip(bkt, tbl) == Outcome(<<>>, "none", bkt, tbl)

\* delete_widget, 'owner' not in request: raise ValueError
OwnerMissing(bkt, tbl) == Outcome(<<>>, "ValueError", bkt, tbl)

\* S3Storage.delete_widget; ok: delete_object returns
S3Storage_delete_widget(bkt, tbl, req, ok) ==
    IF ~Has(req, "widgetId") THEN Outcome(<<>>, "KeyError", bkt, tbl)
    ELSE IF ~Has(req, "owner") THEN OwnerMissing(bkt, tbl)
    ELSE LET key == format_key(req["owner"], req["widgetId"])
         IN  Outcome(<<Call("delete_object", [Key |-> key], ok)>>,
                     IF ok THEN "none" ELSE "ClientError",
                     IF ok THEN DelItem(bkt, key) ELSE bkt,
                     tbl)

(* --------------------------- DynamoDBStorage --------------------------- *)
\* label and description are always written, empty when the request has none
OptionalField_Always(item, req, k) ==
    SetItem(item, k, IF Has(req, k) THEN req[k] ELSE <<>>)

\* if k in request: item[k] = request[k]
OptionalField(item, req, k) ==
    IF Has(req, k) THEN SetItem(item, k, req[k]) ELSE item

\* an attribute does not replace a field the item already has
SetAttr_KeepFirst(item, attr) ==
    IF Has(item, attr.name) THEN item
    ELSE SetItem(item, attr.name, attr.value)

\* item[attr['name']] = attr['value']
SetAttr(item, attr) == SetItem(item, attr.name, attr.value)

\* for attr in request['otherAttributes']: item[attr['name']] = attr['value']
RECURSIVE Flatten(_, _)
Flatten(item, attrs) ==
    IF attrs = <<>> THEN item
    ELSE Flatten(SetAttr(item, Head(attrs)), Tail(attrs))

\* the item create_widget builds for a request that has widgetId and owner
CreateItem(req) ==
    LET item0 == [id |-> req["widgetId"], owner |-> req["owner"]]
        item1 == OptionalField(item0, req, "label")
        item2 == OptionalField(item1, req, "description")
    IN  IF Has(req, "otherAttributes")
        THEN Flatten(item2, req["otherAttributes"])
        ELSE item2

\* a request without owner is written as an item without owner
DynamoDBStorage_create_widget_OwnerOptional(bkt, tbl, req, ok) ==
    IF ~Has(req, "widgetId") THEN Outcome(<<>>, "KeyError", bkt, tbl)
    ELSE LET item == OptionalField([id |-> req["widgetId"]], req, "owner")
         IN  Outcome(<<Call("put_item", [Item |-> item], ok)>>,
                     IF ok THEN "none" ELSE "ClientError",
                     bkt,
                     IF ok THEN SetItem(tbl, item["id"], item) ELSE tbl)

\* DynamoDBStorage.create_widget; ok: put_item returns
DynamoDBStorage_create_widget(bkt, tbl, req, ok) ==
    IF ~Has(req, "widgetId") \/ ~Has(req, "owner")
    THEN Outcome(<<>>, "KeyError", bkt, tbl)
    ELSE LET item == CreateItem(req)
         IN  Outcome(<<Call("put_item", [Item |-> item], ok)>>,
                     IF ok THEN "none" ELSE "ClientError",
                     bkt,
                     IF ok THEN SetItem(tbl, item["id"], item) ELSE tbl)

\* the fields update_widget looks for, in its order
updatable_fields == <<"owner", "label", "description">>

\* the placeholders of a fixed field: f"#{field}", f":{field}"
FieldPlaceholders(field) ==
    [name |-> <<"#", field>>, value |-> <<":", field>>]

\* the attribute placeholders are numbered from 1
AttrPlaceholders_FromOne(i) ==
    [name |-> <<"#", "attr", i + 1>>, value |-> <<":", "val", i + 1>>]

\* the placeholders of the otherAttributes entry enumerate() numbers i:
\* f"#attr{i}", f":val{i}"
AttrPlaceholders(i) ==
    [name |-> <<"#", "attr", i>>, value |-> <<":", "val", i>>]

\* for field in updatable_fields: if field in request: one clause, with its
\* placeholders, the attribute name and the value
FieldUpdates(req) ==
    LET present == SelectSeq(updatable_fields, LAMBDA f : Has(req, f))
    IN  [i \in DOMAIN present |->
           [ph |-> FieldPlaceholders(present[i]),
            attr |-> present[i],
            val |-> req[present[i]]]]

\* for i, attr in enumerate(request['otherAttributes']): one clause each
AttrUpdates(req) ==
    IF Has(req, "otherAttributes")
    THEN [i \in DOMAIN req["otherAttributes"] |->
            [ph |-> AttrPlaceholders(i - 1),
             attr |-> req["otherAttributes"][i].name,
             val |-> req["otherAttributes"][i].value]]
    ELSE <<>>

\* update_expression as it is built: "SET ", then per clause
\* f"{name_placeholder} = {value_placeholder}, "
ExpressionText(updates) ==
    LET RECURSIVE text(_)
        text(n) == IF n = 0 THEN <<"SET ">>
                   ELSE text(n - 1)
                        \o <<updates[n].ph.name, " = ", updates[n].ph.value, ", ">>
    IN  text(Len(updates))

\* update_expression.rstrip(', '): the commas and spaces at the end are cut
\* (the pieces "SET " and " = " do not end the text of a call with a clause)
RECURSIVE rstrip(_)
rstrip(text) ==
    IF text # <<>> /\ text[Len(text)] = ", "
    THEN rstrip(SubSeq(text, 1, Len(text) - 1))
    ELSE text

\* ExpressionAttributeNames: one entry per clause, name placeholder |->
\* attribute name; a later clause of the same placeholder replaces the entry
expression_attribute_names(updates) ==
    [k \in {updates[i].ph.name : i \in DOMAIN updates} |->
       updates[CHOOSE i \in DOMAIN updates :
                 /\ updates[i].ph.name = k
                 /\ \A j \in DOMAIN updates :
                      updates[j].ph.name = k => j <= i].attr]

\* ExpressionAttributeValues: one entry per clause, value placeholder |->
\* value; a later clause of the same placeholder replaces the entry
expression_attribute_values(updates) ==
    [k \in {updates[i].ph.value : i \in DOMAIN updates} |->
       updates[CHOOSE i \in DOMAIN updates :
                 /\ updates[i].ph.value = k
                 /\ \A j \in DOMAIN updates :
                      updates[j].ph.value = k => j <= i].val]

\* the arguments of update_item update_widget builds for a request
UpdateArgs(req) ==
    LET updates == FieldUpdates(req) \o AttrUpdates(req)
    IN  [Key |-> [id |-> req["widgetId"]],
         UpdateExpression |-> rstrip(ExpressionText(updates)),
         ExpressionAttributeNames |->
             expression_attribute_names(updates),
         ExpressionAttributeValues |->
             expression_attribute_values(updates)]

\* the clauses "#n = :v" of a SET expression, as pairs <<#n, :v>>
Clauses(expr) ==
    {<<expr[i - 1], expr[i + 1]>> : i \in {j \in DOMAIN expr : expr[j] = " = "}}

\* the table after update_item(Key, UpdateExpression, names, values) was
\* accepted: the item of the key, made if there was none, with every
\* attribute a clause names set to the clause's value
UpdateItem(tbl, args) ==
    LET id == args.Key["id"]
        old == IF id \in DOMAIN tbl THEN tbl[id] ELSE [id |-> id]
        set == {<<args.ExpressionAttributeNames[c[1]],
                  args.ExpressionAttributeValues[c[2]]>> :
                c \in Clauses(args.UpdateExpression)}
        item == [a \in DOMAIN old \cup {p[1] : p \in set} |->
                   IF \E p \in set : p[1] = a
                   THEN (CHOOSE p \in set : p[1] = a)[2]
                   ELSE old[a]]
    IN  SetItem(tbl, id, item)

\* update_item rejects an expression that sets one attribute twice, or sets
\* the key attribute
Accepted(args) ==
    LET cs == Clauses(args.UpdateExpression)
    IN  /\ \A c, d \in cs :
             args.ExpressionAttributeNames[c[1]] = args.ExpressionAttributeNames[d[1]]
               => c = d
        /\ \A c \in cs : args.ExpressionAttributeNames[c[1]] # "id"

\* update_widget makes its call also when there is nothing to set
NothingToUpdate_Never(values) == FALSE

\* not expression_attribute_values
NothingToUpdate(values) == DOMAIN values = {}

\* DynamoDBStorage.update_widget; ok: update_item does not raise for a reason
\* of its own
DynamoDBStorage_update_widget(bkt, tbl, req, ok) ==
    IF ~Has(req, "widgetId") THEN Outcome(<<>>, "KeyError", bkt, tbl)
    ELSE LET args == UpdateArgs(req)
             done == ok /\ Accepted(args)
         IN  IF NothingToUpdate(args.ExpressionAttributeValues)
             THEN Outcome(<<>>, "none", bkt, tbl)
             ELSE Outcome(<<Call("update_item", args, done)>>,
                          IF done THEN "none" ELSE "ClientError",
                          bkt,
                          IF done THEN UpdateItem(tbl, args) ELSE tbl)

\* DynamoDBStorage.delete_widget; ok: delete_item returns
DynamoDBStorage_delete_widget(bkt, tbl, req, ok) ==
    IF ~Has(req, "widgetId") THEN Outcome(<<>>, "KeyError", bkt, tbl)
    ELSE Outcome(<<Call("delete_item", [Key |-> [id |-> req["widgetId"]]], ok)>>,
                 IF ok THEN "none" ELSE "ClientError",
                 bkt,
                 IF ok THEN DelItem(tbl, req["widgetId"]) ELSE tbl)

(* ------------------------ the handlers, called ------------------------- *)
\* a widget stored before: the object create_widget wrote for an earlier
\* request of owner "a-b"
StoredBefore ==
    S3Storage_create_widget(<<>>, <<>>,
        [type |-> "create", requestId |-> <<"r0">>, widgetId |-> <<"w1">>,
         owner |-> <<"a", "-", "b">>], TRUE).bucket

\* a widget stored before in the table: the item create_widget wrote for that
\* earlier request
ItemBefore ==
    DynamoDBStorage_create_widget(<<>>, <<>>,
        [type |-> "create", requestId |-> <<"r0">>, widgetId |-> <<"w1">>,
         owner |-> <<"a", "-", "b">>], TRUE).table

\* A storage handler on its own, as storage.py is used by the unit tests: a
\* handler of either kind, one request, its store empty or holding a widget.
\* No consumer loop runs.
StorageInit ==
    /\ retriever_mode = "s3"
    /\ status = "stopped"
    /\ pc = "fetch"
    /\ body = <<>>
    /\ inbox = {}
    /\ queue = {}
    /\ invisible = {}
    /\ message_cache = <<>>
    /\ request = None
    /\ receipt_handle = NoHandle
    /\ popped = NoMsg
    /\ batchLen = 0
    /\ calls = <<>>
    /\ handed = [i \in Ids |-> 0]
    /\ storage \in {"s3", "dynamodb"}
    /\ widget_request \in Requests
    /\ bucket \in (IF storage = "s3" THEN {<<>>, StoredBefore} ELSE {<<>>})
    /\ table \in (IF storage = "dynamodb" THEN {<<>>, ItemBefore} ELSE {<<>>})
    /\ method = "none"
    /\ storage_calls = <<>>
    /\ raised = "none"

\* the handler method m has been called and did `out`
Called(m, out) ==
    /\ method' = m
    /\ storage_calls' = out.calls
    /\ raised' = out.raised
    /\ bucket' = out.bucket
    /\ table' = out.table
    /\ UNCHANGED <<storage, widget_request>>
    /\ UNCHANGED loopVars

\* storage_handler.create_widget(request), storage_handler an S3Storage
S3CreateWidget ==
    /\ storage = "s3"
    /\ \E ok \in BOOLEAN :
         Called("create_widget",
                S3Storage_create_widget(bucket, table, widget_request, ok))

\* storage_handler.update_widget(request), storage_handler an S3Storage
S3UpdateWidget ==
    /\ storage = "s3"
    /\ \E ok \in BOOLEAN :
         Called("update_widget",
                S3Storage_update_widget(bucket, table, widget_request, ok))

\* storage_handler.delete_widget(request), storage_handler an S3Storage
S3DeleteWidget ==
    /\ storage = "s3"
    /\ \E ok \in BOOLEAN :
         Called("delete_widget",
                S3Storage_delete_widget(bucket, table, widget_request, ok))

\* storage_handler.create_widget(request), storage_handler a DynamoDBStorage
DynamoDBCreateWidget ==
    /\ storage = "dynamodb"
    /\ \E ok \in BOOLEAN :
         Called("create_widget",
                DynamoDBStorage_create_widget(bucket, table, widget_request, ok))

\* storage_handler.update_widget(request), storage_handler a DynamoDBStorage
DynamoDBUpdateWidget ==
    /\ storage = "dynamodb"
    /\ \E ok \in BOOLEAN :
         Called("update_widget",
                DynamoDBStorage_update_widget(bucket, table, widget_request, ok))

\* storage_handler.delete_widget(request), storage_handler a DynamoDBStorage
DynamoDBDeleteWidget ==
    /\ storage = "dynamodb"
    /\ \E ok \in BOOLEAN :
         Called("delete_widget",
                DynamoDBStorage_delete_widget(bucket, table, widget_request, ok))

StorageNext ==
    \/ S3CreateWidget
    \/ S3UpdateWidget
    \/ S3DeleteWidget
    \/ DynamoDBCreateWidget
    \/ DynamoDBUpdateWidget
    \/ DynamoDBDeleteWidget

StorageSpec == StorageInit /\ [][StorageNext]_vars

(* ------------------------- reading the call log ------------------------ *)
SinkOps == {"create_widget", "update_widget", "delete_widget"}

\* the places of the log holding a call of one of the operations ops
Places(ops) == {i \in DOMAIN calls : calls[i].op \in ops}

\* the places of the log where delete_message was called with handle h
Acks(h) == {i \in Places({"delete_message"}) : calls[i].arg = h}

\* the handles of the messages in the cache
Cached == {message_cache[i].ReceiptHandle : i \in DOMAIN message_cache}

InCache(id) == \E i \in DOMAIN message_cache : message_cache[i].MessageId = id

(* ------------------------------- claims -------------------------------- *)

\* C1: queue source, request of type create, update or delete: every
\* delete_message for its delivery comes after the routed storage call, which
\* returned without raising; once the storage call has raised, the loop is not
\* about to call delete_message and calls none for that delivery before the
\* next fetch.
C1_AckOnlyAfterSink ==
    (retriever_mode = "sqs" /\ request # None /\ Routed(request)) =>
        /\ \A i \in Acks(receipt_handle) :
             \E j \in Places(SinkOps) :
                /\ j < i
                /\ calls[j] = Call(SinkOp(request.type),
                                   <<request.requestId, 0>>, TRUE)
        /\ pc = "ack" => \E j \in Places(SinkOps) : calls[j].ok
        /\ (\E j \in Places(SinkOps) : ~calls[j].ok) =>
             (pc # "ack" /\ Acks(receipt_handle) = {})

\* C1, its case: the storage call of a routed request has returned and the
\* message has been acknowledged
C1_Witness ==
    /\ retriever_mode = "sqs" /\ request # None /\ Routed(request)
    /\ Acks(receipt_handle) # {}

\* C2 as stated: queue source, request whose type is none of create, update,
\* delete: no delete_message is issued for its delivery and the message stays
\* in the queue.
C2_UnknownTypeNotAcked ==
    (retriever_mode = "sqs" /\ request.kind = "dict" /\ ~Routed(request)) =>
        (Acks(receipt_handle) = {} /\ receipt_handle[1] \in queue)

\* C2, amended: queue source, request whose type is none of create, update,
\* delete: no storage call is made and the loop goes on to delete_message for
\* that delivery; when the iteration is over exactly one delete_message has
\* been issued for it, and the message has left the queue if that call
\* succeeded.
C2_UnknownTypeAcked ==
    (retriever_mode = "sqs" /\ request.kind = "dict" /\ ~Routed(request)) =>
        /\ Places(SinkOps) = {}
        /\ pc \in {"route", "ack"} => Acks(receipt_handle) = {}
        /\ pc = "fetch" =>
             /\ Cardinality(Acks(receipt_handle)) = 1
             /\ \A i \in Acks(receipt_handle) :
                  calls[i].ok => receipt_handle[1] \notin queue

\* C2, its case: a request of an unknown type has been acknowledged and its
\* message is gone
C2_Witness ==
    /\ retriever_mode = "sqs" /\ request.kind = "dict" /\ ~Routed(request)
    /\ pc = "fetch"
    /\ Acks(receipt_handle) # {}
    /\ receipt_handle[1] \notin queue

\* C3: the loop leaves the running state only by the external interrupt: no
\* error of one request ends it.
C3_OnlyInterruptStops == status # "crashed"

\* C4: poll source: a request is returned only after the delete of its inbox
\* object has succeeded, so no inbox object is handed to the dispatcher more
\* than once and an object handed out is no longer in the inbox, also after
\* the storage call has failed.
C4_PollAtMostOnce ==
    retriever_mode = "s3" =>
        /\ \A id \in Ids :
             /\ handed[id] <= 1
             /\ handed[id] = 1 => id \notin inbox
        /\ request # None =>
             /\ handed[popped.MessageId] = 1
             /\ \E i \in Places({"delete_object"}) :
                  calls[i] = Call("delete_object", <<popped.MessageId, 0>>, TRUE)

\* C4, its case: the storage call of a request handed out has failed and the
\* object is gone from the inbox
C4_Witness ==
    /\ retriever_mode = "s3" /\ request # None
    /\ \E j \in Places(SinkOps) : ~calls[j].ok
    /\ popped.MessageId \notin inbox

\* the deliveries the consumer holds unacknowledged: the messages in the cache
\* and the one at hand for which delete_message has not been called
Unacked ==
    Cached \cup
    (IF receipt_handle # NoHandle
        /\ (pc \in {"route", "ack"} \/ Acks(receipt_handle) = {})
     THEN {receipt_handle} ELSE {})

\* C5: queue source: whenever the consumer exits (interrupt or crash), no
\* delete_message has been issued for a message it fetched and has not yet
\* acknowledged, and each of them is still in the queue (where Timeout makes
\* it receivable again).
C5_ExitLeavesUnacked ==
    [][(retriever_mode = "sqs" /\ status = "running" /\ status' # "running") =>
         \A h \in Unacked :
            /\ pc \in {"route", "ack"} /\ h = receipt_handle => Acks(h) = {}
            /\ h[1] \in queue /\ h[1] \in queue']_vars

\* C5, its case: the consumer has exited and a message it received is in the
\* queue, in flight
C5_Witness ==
    /\ retriever_mode = "sqs" /\ status = "stopped"
    /\ \E id \in queue : id \in invisible

\* the messages come out of the cache in the order of the response: the one
\* popped and the ones still cached are the places popped.pos .. batchLen
FifoOrder ==
    retriever_mode = "sqs" =>
        /\ popped = NoMsg => message_cache = <<>>
        /\ popped # NoMsg =>
             /\ popped.pos + Len(message_cache) = batchLen
             /\ \A i \in DOMAIN message_cache :
                  message_cache[i].pos = popped.pos + i
        /\ pc = "route" =>
             /\ receipt_handle = popped.ReceiptHandle
             /\ request = json_loads(popped.Body).value

\* C6: queue source: get_request calls receive_message exactly when the cache
\* is empty (no step of SQSFetch logs a receive with messages cached, or none
\* with the cache empty), and the messages of a response are returned first to
\* last, one per call, without another receive until the cache has emptied.
C6_ReceiveOnlyWhenEmpty ==
    /\ FifoOrder
    /\ [][/\ FifoOrder'
          /\ (/\ retriever_mode = "sqs" /\ pc = "fetch"
              /\ (Places({"receive_message"})' # {}) # (message_cache = <<>>))
             => ~SQSFetch]_vars

\* C6, its case: the second message of a response of two is returned from
\* the cache, without a receive
C6_Witness ==
    /\ retriever_mode = "sqs" /\ batchLen = 2 /\ popped.pos = 2
    /\ pc = "route"
    /\ Places({"receive_message"}) = {}

\* C7: queue source: when the body of the popped message is not JSON,
\* get_request issues exactly one delete_message, with the handle of that
\* message, and returns None; no storage call and no other acknowledge
\* follows in that iteration.
C7_MalformedDeletedOnce ==
    (retriever_mode = "sqs" /\ popped # NoMsg /\ ~json_loads(popped.Body).ok) =>
        /\ request = None /\ pc = "fetch"
        /\ Cardinality(Places({"delete_message"})) = 1
        /\ Cardinality(Acks(popped.ReceiptHandle)) = 1
        /\ Places(SinkOps) = {}

\* C7, its case: a message that is not JSON has been popped and deleted
C7_Witness ==
    /\ retriever_mode = "sqs" /\ popped # NoMsg /\ ~json_loads(popped.Body).ok
    /\ Acks(popped.ReceiptHandle) # {}
    /\ popped.MessageId \notin queue

\* C8: queue source, the loop scheduled fairly: every message in the cache is
\* eventually popped (handed to the dispatcher or deleted as malformed).
C8_CacheDrains ==
    \A id \in Ids : InCache(id) ~> (popped.MessageId = id)

S3Ops == {"list_objects_v2", "get_object", "delete_object"}

\* C9: poll source: when the object listed is valid JSON and no call fails,
\* get_request returns the parsed content and has made exactly one get and
\* exactly one delete, both for the key of that object.
C9_PollReturnsObject ==
    (/\ retriever_mode = "s3" /\ popped # NoMsg /\ json_loads(popped.Body).ok
     /\ \A i \in Places(S3Ops) : calls[i].ok) =>
        /\ request = json_loads(popped.Body).value
        /\ Cardinality(Places({"get_object"})) = 1
        /\ Cardinality(Places({"delete_object"})) = 1
        /\ \A i \in Places({"get_object", "delete_object"}) :
             calls[i].arg = <<popped.MessageId, 0>>
        /\ popped.MessageId \notin inbox

\* C9, its case: the only object of the inbox, a request, has been returned
C9_Witness ==
    /\ retriever_mode = "s3" /\ popped # NoMsg /\ request.kind = "dict"
    /\ \A i \in Places(S3Ops) : calls[i].ok
    /\ inbox = {} /\ Len(body) = 1

\* C10: poll source: on an empty inbox get_request makes a single list call,
\* no get and no delete, returns None, and the inbox is unchanged.
C10_EmptyInbox ==
    [][(S3Fetch /\ inbox = {}) =>
         /\ request' = None /\ pc' = "fetch"
         /\ Len(calls') = 1 /\ calls'[1].op = "list_objects_v2"
         /\ inbox' = inbox]_vars

\* C10, its case: the inbox is empty and has been listed
C10_Witness ==
    /\ retriever_mode = "s3" /\ inbox = {} /\ request = None
    /\ calls = <<Call("list_objects_v2", NoHandle, TRUE)>>

\* a step of S3Retriever.get_request went wrong: one of its calls raised, or
\* the text of the object is not JSON
S3Failed ==
    \/ \E i \in Places(S3Ops) : ~calls[i].ok
    \/ popped # NoMsg /\ popped.Body.fmt = "garbage"

\* C11: poll source: get_request never ends the loop; when its list, get,
\* parse or delete step fails it returns None, no storage call is made for
\* that cycle, and the loop is at its next fetch.
C11_PollNeverRaises ==
    [][S3Fetch =>
         /\ status' = "running"
         /\ S3Failed' =>
              /\ request' = None
              /\ pc' = "fetch"
              /\ Places(SinkOps)' = {}]_vars

\* C11, its case: delete_object has raised in get_request, after the object
\* was read and parsed, and the loop is running
C11_Witness ==
    /\ retriever_mode = "s3" /\ status = "running" /\ pc = "fetch"
    /\ \E i \in Places({"delete_object"}) : ~calls[i].ok
    /\ json_loads(popped.Body).ok
    /\ request = None

\* C12: queue source: get_request on an empty cache, when receive_message
\* raises or answers without messages, makes that one call and no
\* delete_message, returns None, leaves the cache empty and the queue as it
\* was, and the loop is at its next fetch.
C12_EmptyReceive ==
    [][(/\ SQSFetch /\ message_cache = <<>>
        /\ \/ Receivable = {}
           \/ \E i \in Places({"receive_message"})' : ~calls'[i].ok
           \/ popped' = NoMsg) =>
         /\ request' = None /\ receipt_handle' = NoHandle
         /\ message_cache' = <<>>
         /\ Len(calls') = 1 /\ calls'[1].op = "receive_message"
         /\ queue' = queue
         /\ status' = "running" /\ pc' = "fetch"]_vars

\* C12, its case: receive_message has raised while a message was waiting in
\* the queue
C12_Witness ==
    /\ retriever_mode = "sqs" /\ status = "running" /\ pc = "fetch"
    /\ calls = <<Call("receive_message", NoHandle, FALSE)>>
    /\ Receivable # {}
    /\ message_cache = <<>>

\* C13: queue source: the handle returned with a request is the receipt
\* handle the queue gave to the message whose body was parsed into that
\* request, it is not the handle of a message still cached, and every
\* delete_message of the iteration is called with that handle.
C13_HandleOfParsedMessage ==
    (retriever_mode = "sqs" /\ popped # NoMsg) =>
        /\ popped.Body = body[popped.MessageId]
        /\ request # None =>
             /\ request = json_loads(body[popped.MessageId]).value
             /\ receipt_handle = Delivery(popped.MessageId, popped.pos).ReceiptHandle
             /\ receipt_handle \notin Cached
        /\ \A i \in Places({"delete_message"}) :
             /\ calls[i].arg = Delivery(popped.MessageId, popped.pos).ReceiptHandle
             /\ calls[i].arg \notin Cached

\* C13, its case: the first message of a response of two has been
\* acknowledged while the second is still cached
C13_Witness ==
    /\ retriever_mode = "sqs" /\ request # None
    /\ Len(message_cache) = 1
    /\ Acks(receipt_handle) # {}

\* the log of the iteration holds at most one storage call and at most one
\* delete_message, both of the request at hand, the storage call first; when
\* the loop is back at its fetch, the storage call of a routed request has
\* returned or raised and (queue source) delete_message has been called
\* unless the storage call raised
OneInFlight ==
    /\ Cardinality(Places(SinkOps)) <= 1
    /\ Cardinality(Places({"delete_message"})) <= 1
    /\ \A j \in Places(SinkOps) :
         /\ request # None /\ calls[j].arg = <<request.requestId, 0>>
         /\ \A i \in Places({"delete_message"}) : j < i
    /\ (request # None /\ retriever_mode = "sqs") =>
         \A i \in Places({"delete_message"}) : calls[i].arg = receipt_handle
    /\ (request # None /\ pc = "fetch") =>
         /\ Routed(request) => Places(SinkOps) # {}
         /\ (/\ retriever_mode = "sqs"
             /\ \A j \in Places(SinkOps) : calls[j].ok) =>
               Acks(receipt_handle) # {}

\* C14: one request in flight: in every state the storage call and the
\* delete_message logged are those of the request at hand, in that order, at
\* most one of each; the running loop takes a new request only at its fetch,
\* when the storage call and the acknowledge of the request before are over
\* or were skipped by an exception.
C14_OneInFlight ==
    /\ OneInFlight
    /\ [][/\ OneInFlight'
          /\ (/\ status = "running" /\ status' = "running"
              /\ (request' # request \/ popped' # popped)) =>
                 (pc = "fetch" /\ (S3Fetch \/ SQSFetch))]_vars

\* C14, its case: the first request of a response of two has been stored and
\* acknowledged, the second waits in the cache, and the loop is at its fetch
C14_Witness ==
    /\ retriever_mode = "sqs" /\ pc = "fetch" /\ request # None
    /\ Places(SinkOps) # {} /\ Acks(receipt_handle) # {}
    /\ message_cache # <<>>

\* the storage calls the log holds for the request at hand
SinkCallsLogged == [i \in 1..Cardinality(Places(SinkOps)) |->
                      calls[CHOOSE j \in Places(SinkOps) :
                              Cardinality({k \in Places(SinkOps) : k <= j}) = i]]

\* C15: either source: once the dispatcher is through with a request, a
\* request of type create, update or delete has had exactly one storage call,
\* create_widget, update_widget or delete_widget respectively, also when that
\* call raised; a request of another type has had none; before that point no
\* storage call has been made for it.
C15_OneSinkCall ==
    request # None =>
        /\ pc = "route" => SinkCallsLogged = <<>>
        /\ pc # "route" =>
             /\ Len(SinkCallsLogged) = (IF request.type \in KnownTypes THEN 1 ELSE 0)
             /\ \A i \in DOMAIN SinkCallsLogged :
                  /\ SinkCallsLogged[i].arg = <<request.requestId, 0>>
                  /\ request.type = "create" => SinkCallsLogged[i].op = "create_widget"
                  /\ request.type = "update" => SinkCallsLogged[i].op = "update_widget"
                  /\ request.type = "delete" => SinkCallsLogged[i].op = "delete_widget"

\* C15, its case: the storage call of an update request has raised and the
\* loop has gone on to its next fetch
C15_Witness ==
    /\ request # None /\ request.type = "update" /\ pc = "fetch"
    /\ \E j \in Places(SinkOps) : ~calls[j].ok

\* key is widgets/<owner>/<widget_id> with, in the owner part, every space
\* turned into a hyphen and every capital into its small letter
NormalizedKey(key, owner, widget_id) ==
    /\ Len(key) = 2 + Len(owner) + 1 + Len(widget_id)
    /\ key[1] = "widgets" /\ key[2] = "/"
    /\ \A i \in DOMAIN owner :
         key[2 + i] = (IF owner[i] = " " THEN "-"
                       ELSE IF owner[i] = "A" THEN "a"
                       ELSE IF owner[i] = "B" THEN "b"
                       ELSE owner[i])
    /\ key[2 + Len(owner) + 1] = "/"
    /\ \A i \in DOMAIN widget_id : key[2 + Len(owner) + 1 + i] = widget_id[i]

\* C16: object-store sink: delete_widget on a request that has a widgetId and
\* no owner raises ValueError, makes no call on the bucket (no delete, no
\* put), and the objects stored are as before.
C16_DeleteWithoutOwner ==
    [][(/\ S3DeleteWidget
        /\ Has(widget_request, "widgetId")
        /\ ~Has(widget_request, "owner")) =>
         /\ raised' = "ValueError"
         /\ storage_calls' = <<>>
         /\ bucket' = bucket]_vars

\* C16, its case: delete_widget was called without owner on a bucket holding
\* a widget, which is still there
C16_Witness ==
    /\ storage = "s3" /\ method = "delete_widget"
    /\ ~Has(widget_request, "owner")
    /\ raised = "ValueError"
    /\ bucket = StoredBefore /\ bucket # <<>>

\* the one bucket call of the S3Storage method called last is for the key
\* derived from the owner and widgetId of the request: a put by create_widget
\* and update_widget, a delete by delete_widget; after it returned the object
\* is stored under that key, or no object is
KeyDerived ==
    (storage = "s3" /\ storage_calls # <<>>) =>
        /\ Len(storage_calls) = 1
        /\ storage_calls[1].op =
             (IF method = "delete_widget" THEN "delete_object" ELSE "put_object")
        /\ NormalizedKey(storage_calls[1].arg.Key,
                         widget_request["owner"], widget_request["widgetId"])
        /\ raised = "none" =>
             (storage_calls[1].arg.Key \in DOMAIN bucket) =
                 (method # "delete_widget")

\* C17: object-store sink: create_widget, update_widget and delete_widget
\* address the key widgets/<owner, lower-cased, every space a hyphen>/<widgetId>;
\* a delete_widget following a create_widget of the same request deletes the
\* key that was written, and the object is gone.
C17_KeyDerivation ==
    /\ KeyDerived
    /\ [][/\ KeyDerived'
          /\ (/\ storage = "s3" /\ method = "create_widget" /\ raised = "none"
              /\ S3DeleteWidget /\ raised' = "none") =>
                /\ storage_calls'[1].arg.Key = storage_calls[1].arg.Key
                /\ storage_calls[1].arg.Key \in DOMAIN bucket
                /\ DOMAIN bucket' = DOMAIN bucket \ {storage_calls[1].arg.Key}]_vars

\* C17, its case: the widget of owner "A B c" has been deleted under the key
\* widgets/a-b-c/w1
C17_Witness ==
    /\ storage = "s3" /\ method = "delete_widget" /\ raised = "none"
    /\ widget_request["owner"] = <<"A", " ", "B", " ", "c">>
    /\ storage_calls[1].arg.Key =
         <<"widgets", "/", "a", "-", "b", "-", "c", "/", "w1">>

\* C18: object-store sink: update_widget does on every request, bucket and
\* put outcome what create_widget does; the update_widget called last made a
\* single put, under the derived key, of a body holding every member of the
\* request, requestId and type included, and after it returned that body is
\* what is stored under the key.
C18_UpdateIsCreate ==
    storage = "s3" =>
        /\ \A ok \in BOOLEAN :
             S3Storage_update_widget(bucket, table, widget_request, ok)
               = S3Storage_create_widget(bucket, table, widget_request, ok)
        /\ (method = "update_widget" /\ Has(widget_request, "widgetId")
              /\ Has(widget_request, "owner")) =>
             /\ Len(storage_calls) = 1
             /\ storage_calls[1].op = "put_object"
             /\ NormalizedKey(storage_calls[1].arg.Key,
                              widget_request["owner"], widget_request["widgetId"])
             /\ storage_calls[1].arg.Body.members =
                  {<<k, widget_request[k]>> : k \in DOMAIN widget_request}
             /\ {"requestId", "type"} \subseteq
                  {m[1] : m \in storage_calls[1].arg.Body.members}
             /\ raised = "none" =>
                  bucket[storage_calls[1].arg.Key] = storage_calls[1].arg.Body

\* C18, its case: update_widget has replaced the widget stored before
C18_Witness ==
    /\ storage = "s3" /\ method = "update_widget" /\ raised = "none"
    /\ storage_calls # <<>>
    /\ storage_calls[1].arg.Key \in DOMAIN StoredBefore
    /\ DOMAIN bucket = DOMAIN StoredBefore
    /\ bucket # StoredBefore

\* the item of the put_item the table handler made last
ItemPut == storage_calls[1].arg.Item

\* C19: table sink: create_widget on a request with widgetId and owner and
\* without otherAttributes makes one put_item, of the item with id = widgetId,
\* owner, and label and description exactly when the request has them, with
\* the request's values, and no other field.
C19_CreateItemPlain ==
    (/\ storage = "dynamodb" /\ method = "create_widget"
     /\ Has(widget_request, "widgetId") /\ Has(widget_request, "owner")
     /\ ~Has(widget_request, "otherAttributes")) =>
        /\ Len(storage_calls) = 1
        /\ storage_calls[1].op = "put_item"
        /\ DOMAIN ItemPut =
             {"id", "owner"}
               \cup ({"label", "description"} \cap DOMAIN widget_request)
        /\ ItemPut["id"] = widget_request["widgetId"]
        /\ \A k \in DOMAIN ItemPut \ {"id"} : ItemPut[k] = widget_request[k]
        /\ raised = "none" => table[ItemPut["id"]] = ItemPut

\* C19, its case: a request with label and without description has been
\* written as an item of id, owner and label
C19_Witness ==
    /\ storage = "dynamodb" /\ method = "create_widget" /\ raised = "none"
    /\ ~Has(widget_request, "otherAttributes")
    /\ DOMAIN ItemPut = {"id", "owner", "label"}
    /\ DOMAIN table # {}

\* C20: table sink: create_widget on a request with widgetId, owner and
\* otherAttributes puts an item that has a field for the name of every entry,
\* holding the value of the last entry of that name; the item has no field
\* besides these and id, owner, label, description.
C20_AttributesFlattened ==
    (/\ storage = "dynamodb" /\ method = "create_widget"
     /\ Has(widget_request, "widgetId") /\ Has(widget_request, "owner")
     /\ Has(widget_request, "otherAttributes")) =>
        LET attrs == widget_request["otherAttributes"]
            last(n) == CHOOSE j \in DOMAIN attrs :
                         /\ attrs[j].name = n
                         /\ \A k \in DOMAIN attrs : attrs[k].name = n => k <= j
        IN  /\ Len(storage_calls) = 1
            /\ storage_calls[1].op = "put_item"
            /\ \A i \in DOMAIN attrs :
                 /\ Has(ItemPut, attrs[i].name)
                 /\ ItemPut[attrs[i].name] = attrs[last(attrs[i].name)].value
            /\ DOMAIN ItemPut =
                 {"id", "owner"}
                   \cup ({"label", "description"} \cap DOMAIN widget_request)
                   \cup {attrs[i].name : i \in DOMAIN attrs}

\* C20, its case: two entries named color, with different values, and the
\* item written has the value of the second
C20_Witness ==
    /\ storage = "dynamodb" /\ method = "create_widget" /\ raised = "none"
    /\ Has(widget_request, "otherAttributes")
    /\ Len(widget_request["otherAttributes"]) = 2
    /\ widget_request["otherAttributes"][1].name = "color"
    /\ widget_request["otherAttributes"][2].name = "color"
    /\ widget_request["otherAttributes"][1].value
         # widget_request["otherAttributes"][2].value
    /\ ItemPut["color"] = widget_request["otherAttributes"][2].value
    /\ DOMAIN table # {}

\* the attributes the table call made last writes: the fields of the item
\* put, or the names the update sets
FieldsWritten ==
    IF storage_calls = <<>> THEN {}
    ELSE IF storage_calls[1].op = "put_item" THEN DOMAIN ItemPut
    ELSE IF storage_calls[1].op = "update_item"
         THEN {storage_calls[1].arg.ExpressionAttributeNames[ph] :
                 ph \in DOMAIN storage_calls[1].arg.ExpressionAttributeNames}
    ELSE {}

\* C21: table sink: no item create_widget puts and no update update_widget
\* issues has a field named requestId or type.
C21_NoRequestIdOrType ==
    storage = "dynamodb" => FieldsWritten \cap {"requestId", "type"} = {}

\* the request has nothing update_widget could set
NoUpdatableField(req) ==
    /\ \A f \in {"owner", "label", "description"} : ~Has(req, f)
    /\ Has(req, "otherAttributes") => req["otherAttributes"] = <<>>

\* C22: table sink: update_widget on a request with a widgetId, without owner,
\* label and description and without an otherAttributes entry makes no call on
\* the table, returns without raising, and the table is as before.
C22_UpdateNothing ==
    [][(/\ DynamoDBUpdateWidget
        /\ Has(widget_request, "widgetId")
        /\ NoUpdatableField(widget_request)) =>
         /\ storage_calls' = <<>>
         /\ raised' = "none"
         /\ table' = table]_vars

\* C22, its case: update_widget was called with an empty otherAttributes list
\* and nothing else to set, on a table holding the widget, which is unchanged
C22_Witness ==
    /\ storage = "dynamodb" /\ method = "update_widget"
    /\ Has(widget_request, "widgetId") /\ NoUpdatableField(widget_request)
    /\ Has(widget_request, "otherAttributes")
    /\ storage_calls = <<>> /\ raised = "none"
    /\ table = ItemBefore /\ table # <<>>

\* C23: table sink: update_widget on a request with a widgetId and something
\* to set makes one update_item call, with Key {id: widgetId}; its SET
\* expression has one clause #<field> = :<field> for each of owner, label,
\* description the request has and one clause #attr<i> = :val<i> for the
\* otherAttributes entry at place i (counted from 0), and no other clause; the
\* name map takes each #-placeholder to its field or attribute name, the value
\* map each :-placeholder to its value, and neither has another entry.
C23_UpdateExpression ==
    (/\ storage = "dynamodb" /\ method = "update_widget"
     /\ Has(widget_request, "widgetId")
     /\ ~NoUpdatableField(widget_request)) =>
        LET present == {f \in {"owner", "label", "description"} :
                          Has(widget_request, f)}
            attrs == IF Has(widget_request, "otherAttributes")
                     THEN widget_request["otherAttributes"] ELSE <<>>
            args == storage_calls[1].arg
            names == args.ExpressionAttributeNames
            values == args.ExpressionAttributeValues
            expr == args.UpdateExpression
        IN  /\ Len(storage_calls) = 1
            /\ storage_calls[1].op = "update_item"
            /\ args.Key = [id |-> widget_request["widgetId"]]
            /\ expr[1] = "SET "
            /\ Len(expr) = 4 * (Cardinality(present) + Len(attrs))
            /\ \A i \in 2..Len(expr) :
                 /\ i % 4 = 3 => expr[i] = " = "
                 /\ i % 4 = 1 => expr[i] = ", "
            /\ {<<expr[i], expr[i + 2]>> : i \in {j \in 2..Len(expr) : j % 4 = 2}}
                 = {<<<<"#", f>>, <<":", f>>>> : f \in present}
                   \cup {<<<<"#", "attr", i - 1>>, <<":", "val", i - 1>>>> :
                           i \in DOMAIN attrs}
            /\ DOMAIN names = {<<"#", f>> : f \in present}
                              \cup {<<"#", "attr", i - 1>> : i \in DOMAIN attrs}
            /\ DOMAIN values = {<<":", f>> : f \in present}
                               \cup {<<":", "val", i - 1>> : i \in DOMAIN attrs}
            /\ \A f \in present :
                 /\ names[<<"#", f>>] = f
                 /\ values[<<":", f>>] = widget_request[f]
            /\ \A i \in DOMAIN attrs :
                 /\ names[<<"#", "attr", i - 1>>] = attrs[i].name
                 /\ values[<<":", "val", i - 1>>] = attrs[i].value

\* C23, its case: a request with a label and one attribute, color, has
\* updated the widget stored before, whose owner is kept
C23_Witness ==
    /\ storage = "dynamodb" /\ method = "update_widget" /\ raised = "none"
    /\ DOMAIN widget_request =
         {"type", "requestId", "widgetId", "label", "otherAttributes"}
    /\ Len(widget_request["otherAttributes"]) = 1
    /\ widget_request["otherAttributes"][1].name = "color"
    /\ DOMAIN table[<<"w1">>] = {"id", "owner", "label", "color"}
    /\ table[<<"w1">>]["owner"] = <<"a", "-", "b">>
    /\ table[<<"w1">>]["label"] = widget_request["label"]
    /\ table[<<"w1">>]["color"] = widget_request["otherAttributes"][1].value

\* the storage call of the request at hand returned and the delete_message
\* that followed raised
AckFailed ==
    /\ retriever_mode = "sqs" /\ request # None
    /\ \E j \in Places(SinkOps) : calls[j].ok
    /\ \E i \in Acks(receipt_handle) : ~calls[i].ok

\* after a failed acknowledge the loop runs on, at its next fetch, having
\* called delete_message once; the message is in the queue
AckFailedLeft ==
    AckFailed =>
        /\ status = "running" /\ pc = "fetch"
        /\ Cardinality(Places({"delete_message"})) = 1
        /\ receipt_handle[1] \in queue

\* C24: queue source: when delete_message fails after the storage call of the
\* request returned, the loop is running at its next fetch with that single
\* delete_message call made, and the message is still in the queue; a fetch
\* that gets the message again hands the dispatcher the same request, to be
\* routed, and routing it calls the storage handler for it again.
C24_FailedAckRedelivers ==
    /\ AckFailedLeft
    /\ [][/\ AckFailedLeft'
          /\ (AckFailed /\ SQSFetch /\ popped'.MessageId = receipt_handle[1]) =>
               /\ request' = request
               /\ receipt_handle'[1] = receipt_handle[1]
               /\ pc' = "route"
          /\ (SQSRoute /\ Routed(request) /\ status' = "running") =>
               \E j \in Places(SinkOps)' :
                  /\ calls'[j].op = SinkOp(request.type)
                  /\ calls'[j].arg = <<request.requestId, 0>>]_vars

\* C24, its case: the storage call returned, delete_message failed, the
\* visibility timeout of the message has passed and the queue can hand it out
\* again
C24_Witness ==
    /\ AckFailed
    /\ message_cache = <<>>
    /\ receipt_handle[1] \in Receivable

\* C25: either sink: create_widget on a request without owner raises
\* (KeyError) without having made a call on the store, which is as before;
\* the sqs branch of the dispatcher, its create_widget call having raised so,
\* does not go on to delete_message.
C25_CreateWithoutOwner ==
    [][(/\ S3CreateWidget \/ DynamoDBCreateWidget
        /\ ~Has(widget_request, "owner")) =>
         /\ raised' = "KeyError"
         /\ storage_calls' = <<>>
         /\ bucket' = bucket /\ table' = table
         /\ \A id \in Ids :
              LET req == json_loads([fmt |-> "object", type |-> "create",
                                     requestId |-> id]).value
              IN  /\ SinkOp(req.type) = method'
                  /\ SQSRouteOutcome(req, raised' = "none") = "fetch"]_vars

\* C25, its case: create_widget of the table sink was called without owner
\* on a table holding a widget, and has raised
C25_Witness ==
    /\ storage = "dynamodb" /\ method = "create_widget"
    /\ Has(widget_request, "widgetId") /\ ~Has(widget_request, "owner")
    /\ raised = "KeyError" /\ storage_calls = <<>>
    /\ table = ItemBefore /\ table # <<>>

\* the object the list call returns is not JSON
PoisonFirst ==
    /\ retriever_mode = "s3" /\ inbox # {}
    /\ body[Min(inbox)].fmt = "garbage"

\* C26: poll source: a get_request whose get_object raised, or whose object is
\* not JSON, has called no delete_object, left the inbox as it was and
\* returned None; once the first object of the inbox is not JSON it stays the
\* first, every get_request looks at no other object and returns None, and no
\* inbox object is handed to the dispatcher any more.
C26_PoisonBlocksInbox ==
    [][/\ (/\ S3Fetch
           /\ \/ \E i \in Places({"get_object"})' : ~calls'[i].ok
              \/ popped'.Body.fmt = "garbage") =>
            /\ Places({"delete_object"})' = {}
            /\ inbox' = inbox
            /\ request' = None
       /\ PoisonFirst =>
            /\ PoisonFirst' /\ Min(inbox') = Min(inbox)
            /\ handed' = handed
            /\ S3Fetch =>
                 /\ request' = None /\ pc' = "fetch"
                 /\ popped'.MessageId \in {0, Min(inbox)}]_vars

\* C26, its case: the first of two inbox objects is not JSON, the second is a
\* request; get_request has read the first and returned None, and nothing
\* was ever handed to the dispatcher
C26_Witness ==
    /\ PoisonFirst /\ status = "running"
    /\ Cardinality(inbox) = 2
    /\ \E id \in inbox : body[id].fmt = "object"
    /\ popped.MessageId = Min(inbox)
    /\ calls = S3ListCalls(TRUE) \o <<Call("get_object", <<Min(inbox), 0>>, TRUE)>>
    /\ request = None
    /\ \A id \in Ids : handed[id] = 0

\* every delete_message logged is for the message popped last, which is not
\* in the cache; every message in the cache is in the queue
DeletesOnlyPopped ==
    retriever_mode = "sqs" =>
        /\ \A i \in Places({"delete_message"}) :
             /\ popped # NoMsg
             /\ calls[i].arg = popped.ReceiptHandle
             /\ ~InCache(calls[i].arg[1])
        /\ \A k \in DOMAIN message_cache : message_cache[k].MessageId \in queue

\* C27: queue source: in every state each delete_message the consumer has
\* issued is for the message it popped, none for a message still in the
\* cache, and the cached messages are all in the queue; a message leaves the
\* queue only in a step after which it is the popped one and not cached; when
\* the consumer exits, the messages left in its cache are in the queue.
C27_DeletesOnlyPopped ==
    /\ DeletesOnlyPopped
    /\ [][/\ DeletesOnlyPopped'
          /\ \A id \in queue \ queue' :
               /\ popped'.MessageId = id
               /\ \A k \in DOMAIN message_cache' :
                    message_cache'[k].MessageId # id
          /\ (retriever_mode = "sqs" /\ status = "running"
                /\ status' # "running") =>
               \A k \in DOMAIN message_cache :
                  message_cache[k].MessageId \in queue']_vars

\* C27, its case: of a response of two messages the first has been popped
\* and deleted from the queue, the second is in the cache and in the queue
C27_Witness ==
    /\ retriever_mode = "sqs" /\ batchLen = 2 /\ popped.pos = 1
    /\ \E i \in Places({"delete_message"}) : calls[i].ok
    /\ popped.MessageId \notin queue
    /\ Len(message_cache) = 1
    /\ message_cache[1].MessageId \in queue

====
